---- MODULE Spec2Model ----
(***************************************************************************)
(* Model of aldryn_newsblog/managers.py: ArticleQuerySet.published and the  *)
(* RelatedManager queries published, get_months, get_authors and get_tags. *)
(*                                                                         *)
(* The store is the relational content the queries read: the Article       *)
(* table, the Person and Tag tables (as rows in storage order) and the     *)
(* TaggedItem table.  Every query is one action that computes its result   *)
(* from the store exactly as the code does and records it in `last`.       *)
(***************************************************************************)
EXTENDS Integers, Sequences, FiniteSets, TLC

VARIABLES
    articles,      \* Article table: pk -> row
    tagged_items,  \* TaggedItem table: set of rows (content_type, object_id, tag)
    person_rows,   \* Person table: pks in storage order
    tag_rows,      \* Tag table: pks in storage order
    last           \* the last call: its operation, argument, result, tables read

vars == <<articles, tagged_items, person_rows, tag_rows, last>>

store == <<articles, tagged_items, person_rows, tag_rows>>

(***************************************************************************)
(* Bounds of the model.                                                    *)
(***************************************************************************)
MaxArticles == 3

ArticleIds == 1..MaxArticles

\* Namespaces an article's app_config can have.
Namespaces == {"blog-a", "blog-b"}

\* Namespace strings a caller can pass: the known ones and an unknown one.
QueryNamespaces == Namespaces \cup {"no-such-blog"}

Persons == {"X", "Y"}

Tags == {"django", "python"}

\* ContentType of the Article model; a TaggedItem row can point at others.
ArticleContentType == "article"

Date(y, m, d) == [year |-> y, month |-> m, day |-> d]

\* Publishing dates: two days of one month, and months of two years where
\* the month number alone orders them the wrong way round.
Dates == {Date(2023, 12, 31), Date(2024, 3, 1), Date(2024, 3, 28), Date(2024, 4, 15)}

DefaultDate == Date(2024, 3, 1)

ArticleRows(nsS, dateS, pubS, authS) ==
    [namespace : nsS, publishing_date : dateS, is_published : pubS, authors : authS]

TaggedItemRows(ctS, idS, tagS) ==
    [content_type : ctS, object_id : idS, tag : tagS]

NoCall == [op |-> "none", namespace |-> "", result |-> <<>>, queried |-> {}]

(***************************************************************************)
(* Helpers: Python's list, set, sorted and Counter.                        *)
(***************************************************************************)

\* The elements of a set of integers as a list, ascending (rows by pk).
RECURSIVE ListOf(_)
ListOf(S) ==
    IF S = {} THEN <<>>
    ELSE LET m == CHOOSE x \in S : \A y \in S : x <= y
         IN  <<m>> \o ListOf(S \ {m})

Range(seq) == {seq[i] : i \in DOMAIN seq}

\* Python's order on (year, month) tuples: lexicographic.
TupleLess(a, b) == a[1] < b[1] \/ (a[1] = b[1] /\ a[2] < b[2])

\* Faulty variant of Counter: the list turned into a set before it is counted.
Counter_after_set(dates, key) == Cardinality({k \in Range(dates) : k = key})

\* Counter(dates)[key]: the number of occurrences of key in the list.
Counter(dates, key) == Cardinality({i \in DOMAIN dates : dates[i] = key})

\* Faulty variant of sorted_reverse: sorted(S), reverse=True left out.
RECURSIVE sorted_ascending(_)
sorted_ascending(S) ==
    IF S = {} THEN <<>>
    ELSE LET m == CHOOSE x \in S : \A y \in S : ~TupleLess(y, x)
         IN  <<m>> \o sorted_ascending(S \ {m})

\* sorted(S, reverse=True) of a set of (year, month) tuples.
RECURSIVE sorted_reverse(_)
sorted_reverse(S) ==
    IF S = {} THEN <<>>
    ELSE LET m == CHOOSE x \in S : \A y \in S : ~TupleLess(x, y)
         IN  <<m>> \o sorted_reverse(S \ {m})

\* The list without its i-th element.
RemoveAt(seq, i) == [j \in 1..(Len(seq) - 1) |-> IF j < i THEN seq[j] ELSE seq[j + 1]]

\* A list of records ordered by num_articles, largest first; records with
\* equal num_articles keep the order they had (Python's sorted is stable,
\* with reverse=True too; ORDER BY leaves ties in the rows' order).
RECURSIVE order_by_num_articles_desc(_)
order_by_num_articles_desc(rows) ==
    IF rows = <<>> THEN <<>>
    ELSE LET i == CHOOSE k \in DOMAIN rows :
                     /\ \A j \in DOMAIN rows : rows[j].num_articles <= rows[k].num_articles
                     /\ \A j \in 1..(k - 1) : rows[j].num_articles < rows[k].num_articles
         IN  <<rows[i]>> \o order_by_num_articles_desc(RemoveAt(rows, i))

\* The sub-list of the rows whose pk is in keep, in the list's order.
RECURSIVE SelectRows(_, _)
SelectRows(seq, keep) ==
    IF seq = <<>> THEN <<>>
    ELSE (IF Head(seq) \in keep THEN <<Head(seq)>> ELSE <<>>) \o SelectRows(Tail(seq), keep)

(***************************************************************************)
(* ArticleQuerySet and RelatedManager.                                     *)
(***************************************************************************)

\* A queryset is the set of pks of the rows it selects.

\* RelatedManager.get_query_set: every article (select_related only joins).
get_query_set == DOMAIN articles

\* Faulty variant of ArticleQuerySet_published: the filter left out.
ArticleQuerySet_unfiltered(qs) == qs

\* ArticleQuerySet.published: filter(is_published=True).
ArticleQuerySet_published(qs) == {a \in qs : articles[a].is_published = TRUE}

\* RelatedManager.published: self.get_query_set().published()
published == ArticleQuerySet_published(get_query_set)

\* Faulty variant of filter_namespace: the namespace lookup left out.
filter_any_namespace(namespace) == get_query_set

\* self.filter(app_config__namespace=namespace)
filter_namespace(namespace) ==
    {a \in get_query_set : articles[a].namespace = namespace}

\* The day get_months gives every month's date.
ARBITRARY_DAY == 3

\* Faulty variant of get_months: only the published articles are counted.
get_months_published(namespace) ==
    LET qs == ListOf(ArticleQuerySet_published(filter_namespace(namespace)))
        values_list == [i \in DOMAIN qs |-> articles[qs[i]].publishing_date]
        dates == [i \in DOMAIN values_list |->
                     <<values_list[i].year, values_list[i].month>>]
        keys == sorted_reverse(Range(dates))
    IN  [i \in DOMAIN keys |->
            [date |-> Date(keys[i][1], keys[i][2], ARBITRARY_DAY),
             num_articles |-> Counter(dates, keys[i])]]

\* RelatedManager.get_months: the articles of the namespace, their
\* publishing dates as (year, month) tuples, a Counter of the tuples, the
\* distinct tuples sorted in reverse, and one record per tuple.
get_months(namespace) ==
    LET qs == ListOf(filter_namespace(namespace))
        values_list == [i \in DOMAIN qs |-> articles[qs[i]].publishing_date]
        dates == [i \in DOMAIN values_list |->
                     <<values_list[i].year, values_list[i].month>>]
        keys == sorted_reverse(Range(dates))
    IN  [i \in DOMAIN keys |->
            [date |-> Date(keys[i][1], keys[i][2], ARBITRARY_DAY),
             num_articles |-> Counter(dates, keys[i])]]

\* Faulty variant of get_authors: every person who wrote any article is returned
\* (an outer join), annotated with the count of the namespace's articles.
get_authors_outer_join(namespace) ==
    LET joined == {r \in Persons \X DOMAIN articles :
                      /\ r[1] \in articles[r[2]].authors
                      /\ articles[r[2]].namespace = namespace}
        writers == {r \in Persons \X DOMAIN articles : r[1] \in articles[r[2]].authors}
        persons == SelectRows(person_rows, {r[1] : r \in writers})
        annotated == [i \in DOMAIN persons |->
                         [person |-> persons[i],
                          num_articles |-> Cardinality({r \in joined : r[1] = persons[i]})]]
    IN  order_by_num_articles_desc(annotated)

\* Faulty variant of get_authors: the count runs over a join of its own (annotate
\* before filter), so it counts the author's articles of every namespace.
get_authors_count_all(namespace) ==
    LET joined == {r \in Persons \X DOMAIN articles :
                      /\ r[1] \in articles[r[2]].authors
                      /\ articles[r[2]].namespace = namespace}
        writers == {r \in Persons \X DOMAIN articles : r[1] \in articles[r[2]].authors}
        persons == SelectRows(person_rows, {r[1] : r \in joined})
        annotated == [i \in DOMAIN persons |->
                         [person |-> persons[i],
                          num_articles |-> Cardinality({r \in writers : r[1] = persons[i]})]]
    IN  order_by_num_articles_desc(annotated)

\* RelatedManager.get_authors: Person rows INNER JOINed with the articles of
\* the namespace, grouped by person, annotated with Count('article') over the
\* joined rows and ordered by -num_articles.
get_authors(namespace) ==
    LET joined == {r \in Persons \X DOMAIN articles :
                      /\ r[1] \in articles[r[2]].authors
                      /\ articles[r[2]].namespace = namespace}
        persons == SelectRows(person_rows, {r[1] : r \in joined})
        annotated == [i \in DOMAIN persons |->
                         [person |-> persons[i],
                          num_articles |-> Cardinality({r \in joined : r[1] = persons[i]})]]
    IN  order_by_num_articles_desc(annotated)

\* Faulty variant of bulk_lookup: the content_type lookup left out.
bulk_lookup_any_content_type(qs) == {t \in tagged_items : t.object_id \in qs}

\* TaggedItem.bulk_lookup_kwargs(articles) applied as TaggedItem.objects.filter:
\* the rows whose object_id is one of the articles and whose content_type is
\* Article's.
bulk_lookup(qs) ==
    {t \in tagged_items : t.object_id \in qs /\ t.content_type = ArticleContentType}

\* counted_tags: .values('tag').annotate(tag_count=Count('tag')) as a dict
\* tag pk -> tag_count.
counted_tags(qs) ==
    LET rows == bulk_lookup(qs)
    IN  [tag \in {t.tag : t \in rows} |-> Cardinality({t \in rows : t.tag = tag})]

\* Faulty variant of get_tags_call: the early return for no articles left out.
get_tags_call_no_early_return(namespace) ==
    LET qs == filter_namespace(namespace)
        counted == counted_tags(qs)
        tags == SelectRows(tag_rows, DOMAIN counted)
        annotated == [i \in DOMAIN tags |->
                         [tag |-> tags[i], num_articles |-> counted[tags[i]]]]
    IN  [result |-> order_by_num_articles_desc(annotated),
         queried |-> {"article", "taggeditem", "tag"}]

\* RelatedManager.get_tags.  The result and the tables the call reads.
get_tags_call(namespace) ==
    LET qs == filter_namespace(namespace)
    IN  IF qs = {}
        THEN [result |-> <<>>, queried |-> {"article"}]
        ELSE LET counted == counted_tags(qs)
                 tags == SelectRows(tag_rows, DOMAIN counted)
                 annotated == [i \in DOMAIN tags |->
                                  [tag |-> tags[i], num_articles |-> counted[tags[i]]]]
             IN  [result |-> order_by_num_articles_desc(annotated),
                  queried |-> {"article", "taggeditem", "tag"}]

get_tags(namespace) == get_tags_call(namespace).result

(***************************************************************************)
(* Actions: one per query.  No query writes to the store.                  *)
(***************************************************************************)

Published ==
    /\ last' = [op |-> "published", namespace |-> "", result |-> published,
                queried |-> {"article"}]
    /\ UNCHANGED store

GetMonths ==
    \E namespace \in QueryNamespaces :
        /\ last' = [op |-> "get_months", namespace |-> namespace,
                    result |-> get_months(namespace), queried |-> {"article"}]
        /\ UNCHANGED store

GetAuthors ==
    \E namespace \in QueryNamespaces :
        /\ last' = [op |-> "get_authors", namespace |-> namespace,
                    result |-> get_authors(namespace),
                    queried |-> {"person", "article"}]
        /\ UNCHANGED store

\* Faulty variant of GetTags: the tagged items the call counted are deleted.
GetTagsDeleting ==
    \E namespace \in QueryNamespaces :
        /\ last' = [op |-> "get_tags", namespace |-> namespace,
                    result |-> get_tags_call(namespace).result,
                    queried |-> get_tags_call(namespace).queried]
        /\ tagged_items' = tagged_items \ bulk_lookup(filter_namespace(namespace))
        /\ UNCHANGED <<articles, person_rows, tag_rows>>

GetTags ==
    \E namespace \in QueryNamespaces :
        /\ last' = [op |-> "get_tags", namespace |-> namespace,
                    result |-> get_tags_call(namespace).result,
                    queried |-> get_tags_call(namespace).queried]
        /\ UNCHANGED store

Next == Published \/ GetMonths \/ GetAuthors \/ GetTags

(***************************************************************************)
(* Specifications: the same queries over different families of stores.     *)
(***************************************************************************)

\* The orders a table's rows can be stored in.
Orders(S) == {seq \in [1..Cardinality(S) -> S] : Range(seq) = S}

\* TaggedItem rows on the articles ids, and one on another content object
\* that shares the pk 1.
TaggedItemsOn(ids) ==
    TaggedItemRows({ArticleContentType}, ids, Tags)
        \cup TaggedItemRows({"page"}, {1}, {"django"})

\* Stores for the month archive: articles differ in namespace, publishing
\* date and published flag.
InitMonths ==
    /\ \E ids \in SUBSET ArticleIds :
          articles \in [ids -> ArticleRows(Namespaces, Dates, BOOLEAN, {{}})]
    /\ tagged_items = {}
    /\ person_rows = <<"X", "Y">>
    /\ tag_rows = <<"django", "python">>
    /\ last = NoCall

SpecMonths == InitMonths /\ [][Next]_vars

\* Stores for the author ranking: articles differ in namespace and authors,
\* the Person table in its storage order.
InitAuthors ==
    /\ \E ids \in SUBSET ArticleIds :
          articles \in [ids -> ArticleRows(Namespaces, {DefaultDate}, {TRUE}, SUBSET Persons)]
    /\ tagged_items = {}
    /\ person_rows \in Orders(Persons)
    /\ tag_rows = <<"django", "python">>
    /\ last = NoCall

SpecAuthors == InitAuthors /\ [][Next]_vars

\* Stores for the tag ranking: articles differ in namespace, tagged items
\* in what they tag, the Tag table in its storage order.
InitTags ==
    /\ \E ids \in SUBSET ArticleIds :
          /\ articles \in [ids -> ArticleRows(Namespaces, {DefaultDate}, {TRUE}, {{}})]
          /\ tagged_items \in SUBSET TaggedItemsOn(ids)
    /\ person_rows = <<"X", "Y">>
    /\ tag_rows \in Orders(Tags)
    /\ last = NoCall

SpecTags == InitTags /\ [][Next]_vars

\* Stores where every field is in use: each article is one of three rows.
SampleRows ==
    { [namespace |-> "blog-a", publishing_date |-> Date(2024, 3, 1),
       is_published |-> TRUE, authors |-> {"X"}],
      [namespace |-> "blog-a", publishing_date |-> Date(2024, 4, 15),
       is_published |-> FALSE, authors |-> {"X", "Y"}],
      [namespace |-> "blog-b", publishing_date |-> Date(2023, 12, 31),
       is_published |-> TRUE, authors |-> {"Y"}] }

Init ==
    /\ \E ids \in SUBSET ArticleIds :
          /\ articles \in [ids -> SampleRows]
          /\ tagged_items \in SUBSET TaggedItemsOn(ids)
    /\ person_rows = <<"X", "Y">>
    /\ tag_rows = <<"django", "python">>
    /\ last = NoCall

Spec == Init /\ [][Next]_vars

(***************************************************************************)
(* What the claims speak of, stated on the store independently of the      *)
(* way the queries compute it.                                             *)
(***************************************************************************)

ArticlesIn(N) == {a \in DOMAIN articles : articles[a].namespace = N}

InMonth(a, y, m) ==
    articles[a].publishing_date.year = y /\ articles[a].publishing_date.month = m

ArticlesInMonth(N, y, m) == {a \in ArticlesIn(N) : InMonth(a, y, m)}

PublishedInMonth(N, y, m) == {a \in ArticlesInMonth(N, y, m) : articles[a].is_published}

ArticlesBy(p, N) == {a \in ArticlesIn(N) : p \in articles[a].authors}

ArticlesTagged(t, N) ==
    {a \in ArticlesIn(N) :
        [content_type |-> ArticleContentType, object_id |-> a, tag |-> t] \in tagged_items}

RECURSIVE SumNumArticles(_)
SumNumArticles(rows) ==
    IF rows = <<>> THEN 0 ELSE Head(rows).num_articles + SumNumArticles(Tail(rows))

NonIncreasing(rows) ==
    \A i, j \in DOMAIN rows : i < j => rows[i].num_articles >= rows[j].num_articles

Called(op) == last.op = op

(***************************************************************************)
(* C1: get_months(N) returns records whose (year, month) keys are pairwise *)
(* distinct and strictly descending: the most recent month comes first.    *)
(***************************************************************************)
C1_MonthsStrictlyDescending ==
    Called("get_months") =>
        \A i, j \in DOMAIN last.result :
            i < j =>
                LET d == last.result[i].date
                    e == last.result[j].date
                IN  d.year > e.year \/ (d.year = e.year /\ d.month > e.month)

\* A call that returned three months of two years, December 2023 last.
C1_Witness ==
    /\ Called("get_months")
    /\ Len(last.result) = 3
    /\ last.result[1].date.year = 2024
    /\ last.result[3].date.year = 2023 /\ last.result[3].date.month = 12

(***************************************************************************)
(* C2: the num_articles of the records get_months(N) returns add up to the *)
(* number of articles of N, published or not, and of no other namespace.   *)
(***************************************************************************)
C2_MonthsSumIsAllArticles ==
    Called("get_months") =>
        SumNumArticles(last.result) = Cardinality(ArticlesIn(last.namespace))

\* A call on a namespace with a published and an unpublished article, while
\* another namespace has an article too.
C2_Witness ==
    /\ Called("get_months")
    /\ \E a, b \in ArticlesIn(last.namespace) :
          articles[a].is_published /\ ~articles[b].is_published
    /\ \E c \in DOMAIN articles : articles[c].namespace # last.namespace
    /\ SumNumArticles(last.result) = 2

(***************************************************************************)
(* C3, as claimed: a month is in get_months(N) only if N has a published   *)
(* article dated in it, and its num_articles is the number of published    *)
(* articles of N in that month.                                            *)
(***************************************************************************)
C3_MonthsCountPublishedOnly ==
    Called("get_months") =>
        \A i \in DOMAIN last.result :
            LET d == last.result[i].date
                pub == PublishedInMonth(last.namespace, d.year, d.month)
            IN  pub # {} /\ last.result[i].num_articles = Cardinality(pub)

(***************************************************************************)
(* C3, amended: a month is in get_months(N) only if N has an article,      *)
(* published or not, dated in it; its num_articles is the number of all    *)
(* articles of N in that month, which the published ones do not exceed.    *)
(***************************************************************************)
C3_MonthsCountEveryArticle ==
    Called("get_months") =>
        \A i \in DOMAIN last.result :
            LET d == last.result[i].date
                all == ArticlesInMonth(last.namespace, d.year, d.month)
                pub == PublishedInMonth(last.namespace, d.year, d.month)
            IN  /\ all # {}
                /\ last.result[i].num_articles = Cardinality(all)
                /\ last.result[i].num_articles >= Cardinality(pub)

\* A call that returned a month whose only articles are unpublished, and a
\* month with a published and an unpublished one.
C3_Witness ==
    /\ Called("get_months")
    /\ \E i, j \in DOMAIN last.result :
          LET d == last.result[i].date
              e == last.result[j].date
          IN  /\ PublishedInMonth(last.namespace, d.year, d.month) = {}
              /\ Cardinality(PublishedInMonth(last.namespace, e.year, e.month)) = 1
              /\ last.result[j].num_articles = 2

(***************************************************************************)
(* C4: get_months(N) has exactly one record for each (year, month) some    *)
(* article of N is dated in and none for any other month; the record's     *)
(* date is the 3rd of that month and its num_articles the number of        *)
(* articles of N dated in that month.                                      *)
(***************************************************************************)
C4_MonthsOneRecordPerMonth ==
    Called("get_months") =>
        LET N == last.namespace
            months == {<<articles[a].publishing_date.year,
                         articles[a].publishing_date.month>> : a \in ArticlesIn(N)}
        IN  /\ Len(last.result) = Cardinality(months)
            /\ \A k \in months :
                  \E i \in DOMAIN last.result :
                      last.result[i] =
                          [date |-> [year |-> k[1], month |-> k[2], day |-> 3],
                           num_articles |-> Cardinality(ArticlesInMonth(N, k[1], k[2]))]

\* The scenario: 2 articles in March 2024 (on different days) and 1 in
\* April 2024.
C4_Witness ==
    /\ Called("get_months")
    /\ \E a, b \in ArticlesIn(last.namespace) :
          articles[a].publishing_date.day # articles[b].publishing_date.day
    /\ last.result = << [date |-> [year |-> 2024, month |-> 4, day |-> 3], num_articles |-> 1],
                        [date |-> [year |-> 2024, month |-> 3, day |-> 3], num_articles |-> 2] >>

(***************************************************************************)
(* C5: get_authors(N) never includes an author with zero articles in N:    *)
(* every returned author has num_articles >= 1 and wrote an article of N.  *)
(***************************************************************************)
C5_AuthorsHaveArticles ==
    Called("get_authors") =>
        \A i \in DOMAIN last.result :
            /\ last.result[i].num_articles >= 1
            /\ ArticlesBy(last.result[i].person, last.namespace) # {}

\* A call that returned an author while the other person wrote only in
\* another namespace.
C5_Witness ==
    /\ Called("get_authors")
    /\ Len(last.result) = 1
    /\ \E p \in Persons :
          /\ ArticlesBy(p, last.namespace) = {}
          /\ \E a \in DOMAIN articles : p \in articles[a].authors

(***************************************************************************)
(* C6: get_authors(N) returns each author with an article in N exactly     *)
(* once, with num_articles the number of articles of N the author wrote,   *)
(* ordered by num_articles non-increasing.                                 *)
(***************************************************************************)
C6_AuthorsCountedAndRanked ==
    Called("get_authors") =>
        LET N == last.namespace
            authors == {p \in Persons : ArticlesBy(p, N) # {}}
        IN  /\ Len(last.result) = Cardinality(authors)
            /\ \A p \in authors :
                  \E i \in DOMAIN last.result :
                      last.result[i] =
                          [person |-> p, num_articles |-> Cardinality(ArticlesBy(p, N))]
            /\ NonIncreasing(last.result)

\* The scenario: X on 3 articles and Y on 1, Y stored before X.
C6_Witness ==
    /\ Called("get_authors")
    /\ person_rows = <<"Y", "X">>
    /\ last.result = << [person |-> "X", num_articles |-> 3],
                        [person |-> "Y", num_articles |-> 1] >>

(***************************************************************************)
(* C7: for a namespace N with an article, get_tags(N) returns exactly the  *)
(* tags attached to an article of N, each once, with num_articles the      *)
(* number of articles of N that carry the tag, ordered by num_articles     *)
(* non-increasing.                                                         *)
(***************************************************************************)
C7_TagsCountedAndRanked ==
    (Called("get_tags") /\ ArticlesIn(last.namespace) # {}) =>
        LET N == last.namespace
            attached == {t \in Tags : ArticlesTagged(t, N) # {}}
        IN  /\ Len(last.result) = Cardinality(attached)
            /\ \A t \in attached :
                  \E i \in DOMAIN last.result :
                      last.result[i] =
                          [tag |-> t, num_articles |-> Cardinality(ArticlesTagged(t, N))]
            /\ NonIncreasing(last.result)

\* A call that ranked python (2 articles) before django (1 article) though
\* django is stored first, while a page with an article's pk and an article
\* of another namespace carry django too.
C7_Witness ==
    /\ Called("get_tags")
    /\ tag_rows = <<"django", "python">>
    /\ last.result = << [tag |-> "python", num_articles |-> 2],
                        [tag |-> "django", num_articles |-> 1] >>
    /\ \E t \in tagged_items : t.content_type # ArticleContentType /\ t.tag = "django"
    /\ \E a \in DOMAIN articles :
          /\ articles[a].namespace # last.namespace
          /\ [content_type |-> ArticleContentType, object_id |-> a, tag |-> "django"]
                \in tagged_items

Repeatable ==
    /\ Called("published") => published = last.result
    /\ Called("get_months") => get_months(last.namespace) = last.result
    /\ Called("get_authors") => get_authors(last.namespace) = last.result
    /\ Called("get_tags") => get_tags(last.namespace) = last.result

\* A step leaves the store as it was, and a call of the same query with the
\* same namespace as the call before it returns the same result.
QueriesReadOnly ==
    /\ store' = store
    /\ (last'.op = last.op /\ last'.namespace = last.namespace) =>
          last'.result = last.result

C10_PublishedExactly ==
    Called("published") =>
        /\ \A a \in last.result : a \in DOMAIN articles /\ articles[a].is_published
        /\ \A a \in DOMAIN articles : articles[a].is_published => a \in last.result
        /\ last.result = ArticleQuerySet_published(DOMAIN articles)

\* A call on a store with published articles of two namespaces and an
\* unpublished one.
C10_Witness ==
    /\ Called("published")
    /\ \E a, b \in last.result : articles[a].namespace # articles[b].namespace
    /\ \E c \in DOMAIN articles : ~articles[c].is_published

====
